---- MODULE Spec2Model ----
(***************************************************************************)
(* A model of umlizer/class_graph.py: the entity loader, the structure     *)
(* normalizer, the UML formatter and the diagram builder.                  *)
(*                                                                         *)
(* Python strings are sequences of one-character strings, so that          *)
(* split, rstrip, startswith, join and f-string concatenation are computed *)
(* as Python computes them.                                                *)
(***************************************************************************)
EXTENDS Integers, Sequences, FiniteSets, TLC

VARIABLES
    sys_path,      \* sys.path: the process-wide module search path
    sys_modules,   \* sys.modules: module name -> loaded module
    source,        \* load_classes_definition's argument
    pc,            \* position inside load_classes_definition
    pending,       \* files of _search_modules not yet iterated (line 352)
    classes_list,  \* load_classes_definition's classes_list
    result,        \* load_classes_definition's result
    calls,         \* one record per finished _get_classes_from_module call
    call,          \* the function applied last (pure-function specifications)
    arg,           \* its argument
    ret            \* what it returned

vars == <<sys_path, sys_modules, source, pc, pending, classes_list, result,
          calls, call, arg, ret>>

loader_vars == <<sys_path, sys_modules, source, pc, pending, classes_list,
                 result, calls>>

harness_vars == <<call, arg, ret>>

(***************************************************************************)
(* Bounds                                                                  *)
(***************************************************************************)
MaxStem == 3       \* characters of a file name's stem
MaxMembers == 2    \* members of a class body, fields or methods of a ClassDef
MaxBases == 1      \* bases of a ClassDef handed to create_diagram
MaxClasses == 3    \* ClassDefs handed to create_diagram

(***************************************************************************)
(* Python str operations                                                   *)
(***************************************************************************)
\* os.sep
sep == <<"/">>

Range(s) == {s[i] : i \in 1..Len(s)}

\* str.startswith(prefix)
startswith(s, prefix) ==
    /\ Len(prefix) <= Len(s)
    /\ SubSeq(s, 1, Len(prefix)) = prefix

\* str.endswith(suffix)
endswith(s, suffix) ==
    /\ Len(suffix) <= Len(s)
    /\ SubSeq(s, Len(s) - Len(suffix) + 1, Len(s)) = suffix

\* the positions at which sub occurs in s
occurrences(s, sub) ==
    {i \in 1..(Len(s) - Len(sub) + 1) : SubSeq(s, i, i + Len(sub) - 1) = sub}

\* the operator `sub in s` on two str
contains(s, sub) == occurrences(s, sub) # {}

\* str.split(c) for a non-empty separator: never empty, keeps empty parts
RECURSIVE split(_, _)
split(s, c) ==
    IF occurrences(s, c) = {}
    THEN <<s>>
    ELSE LET i == CHOOSE k \in occurrences(s, c) :
                      \A j \in occurrences(s, c) : k <= j
         IN  <<SubSeq(s, 1, i - 1)>>
                 \o split(SubSeq(s, i + Len(c), Len(s)), c)

\* c.join(parts)
RECURSIVE join(_, _)
join(c, parts) ==
    IF parts = <<>> THEN <<>>
    ELSE IF Len(parts) = 1 THEN parts[1]
    ELSE parts[1] \o c \o join(c, Tail(parts))

\* str.rstrip(chars): drops every trailing character that is IN the set chars
RECURSIVE rstrip(_, _)
rstrip(s, chars) ==
    IF s # <<>> /\ s[Len(s)] \in Range(chars)
    THEN rstrip(SubSeq(s, 1, Len(s) - 1), chars)
    ELSE s

dot_py == <<".", "p", "y">>

(***************************************************************************)
(* _extract_module_name                                                    *)
(***************************************************************************)
_extract_module_name(module_path) ==
    LET module_split == split(module_path, sep)
        n == Len(module_split)
        module_filename == module_split[n]
    IN  <<join(sep, SubSeq(module_split, 1, n - 1)),
          rstrip(module_filename, dot_py)>>

(***************************************************************************)
(* str literals                                                            *)
(***************************************************************************)
s_empty == <<>>
s_dot == <<".">>
s_dunder == <<"_", "_">>
s_under == <<"_">>
s_builtins == <<"b", "u", "i", "l", "t", "i", "n", "s">>
s_object == <<"o", "b", "j", "e", "c", "t">>
s_int == <<"i", "n", "t">>
s_module_key == <<"_", "_", "m", "o", "d", "u", "l", "e", "_", "_">>
s_init_key == <<"_", "_", "i", "n", "i", "t", "_", "_">>
s_pycache ==
    <<"_", "_", "p", "y", "c", "a", "c", "h", "e", "_", "_">>

(***************************************************************************)
(* Python objects.  One record shape for every object the code inspects:   *)
(*   isclass              inspect.isclass(o)                               *)
(*   has_module, module   hasattr(o, '__module__'), o.__module__           *)
(*   has_name, name       hasattr(o, '__name__'), o.__name__               *)
(*   repr                 str(o)                                           *)
(*   base                 the declared base class (at most one), as a      *)
(*                        sequence of length 0 or 1                        *)
(*   body                 the members the class statement declares         *)
(*   dataclass            the class statement carries @dataclass           *)
(***************************************************************************)
Obj(ic, hm, m, hn, n, r, base, body, dc) ==
    [isclass |-> ic, has_module |-> hm, module |-> m, has_name |-> hn,
     name |-> n, repr |-> r, base |-> base, body |-> body, dataclass |-> dc]

\* a class statement `class n(base): body` executed in module m
Class(m, n, base, body, dc) ==
    Obj(TRUE, TRUE, m, TRUE, n, <<"<">> \o m \o s_dot \o n \o <<">">>,
        base, body, dc)

\* a str instance: no __module__, no __name__, str(o) is the text itself
StrObj(text) ==
    Obj(FALSE, FALSE, s_empty, FALSE, s_empty, text, <<>>, <<>>, FALSE)

\* an instance of a class defined in Python code: __module__ is found on
\* its type, __name__ is not
InstanceObj(m, r) ==
    Obj(FALSE, TRUE, m, FALSE, s_empty, r, <<>>, <<>>, FALSE)

\* a module object: __name__ but no __module__
ModuleObj(n) ==
    Obj(FALSE, FALSE, s_empty, TRUE, n, <<"<">> \o n \o <<">">>,
        <<>>, <<>>, FALSE)

\* a function defined in module m
FunctionObj(m, n) ==
    Obj(FALSE, TRUE, m, TRUE, n, <<"<">> \o n \o <<">">>, <<>>, <<>>, FALSE)

\* the universal root type
object == Class(s_builtins, s_object, <<>>, <<>>, FALSE)

\* the built-in class int
int == Class(s_builtins, s_int, <<>>, <<>>, FALSE)

\* members of a class body
\*   x: ann = default     Field(x, TRUE, ann, TRUE)
\*   x: ann               Field(x, TRUE, ann, FALSE)
\*   x = default          Field(x, FALSE, ann, TRUE)  (ann unused)
\*   def m(...) -> ...    Method(m, annotations)
Field(n, annotated, ann, has_default) ==
    [kind |-> "field", name |-> n, annotated |-> annotated, ann |-> ann,
     has_default |-> has_default, annotations |-> <<>>]

Method(n, annotations) ==
    [kind |-> "method", name |-> n, annotated |-> FALSE, ann |-> object,
     has_default |-> FALSE, annotations |-> annotations]

\* one item of klass.__dict__
DictItem(k, isfunction, annotations) ==
    [key |-> k, isfunction |-> isfunction, annotations |-> annotations]

\* dataclasses.is_dataclass(klass): __dataclass_fields__ is inherited
RECURSIVE is_dataclass(_)
is_dataclass(klass) ==
    \/ klass.dataclass
    \/ klass.base # <<>> /\ is_dataclass(klass.base[1])

\* klass.__dict__.items(): the class's own attributes, in definition order;
\* an annotation without a value creates no attribute, @dataclass adds
\* __init__ (and other double-underscore functions)
__dict__(klass) ==
    LET own == SelectSeq(klass.body,
                   LAMBDA d : d.kind = "method" \/ d.has_default)
    IN  <<DictItem(s_module_key, FALSE, <<>>)>>
        \o [i \in 1..Len(own) |->
               DictItem(own[i].name, own[i].kind = "method",
                        own[i].annotations)]
        \o (IF klass.dataclass
            THEN <<DictItem(s_init_key, TRUE, <<>>)>> ELSE <<>>)

\* klass.__annotations__.items(): the class's own annotated names
__annotations__(klass) ==
    LET own == SelectSeq(klass.body,
                   LAMBDA d : d.kind = "field" /\ d.annotated)
    IN  [i \in 1..Len(own) |-> <<own[i].name, own[i].ann>>]

\* dict: items is a sequence of <<key, value>> with unique keys
Keys(items) == {items[i][1] : i \in 1..Len(items)}

\* dict.get(k, default)
Get(items, k, default) ==
    IF k \in Keys(items)
    THEN items[CHOOSE i \in 1..Len(items) : items[i][1] = k][2]
    ELSE default

\* d[k] = v: replaces in place, or appends
SetItem(items, k, v) ==
    IF k \in Keys(items)
    THEN [i \in 1..Len(items) |->
             IF items[i][1] = k THEN <<k, v>> ELSE items[i]]
    ELSE Append(items, <<k, v>>)

RECURSIVE Update(_, _)
Update(items, more) ==
    IF more = <<>> THEN items
    ELSE Update(SetItem(items, more[1][1], more[1][2]), Tail(more))

\* klass.__dataclass_fields__.items() as <<name, field.type>>: the fields
\* of the dataclass ancestors, then the class's own annotated names
RECURSIVE __dataclass_fields__(_)
__dataclass_fields__(klass) ==
    LET inherited == IF klass.base # <<>> /\ is_dataclass(klass.base[1])
                     THEN __dataclass_fields__(klass.base[1]) ELSE <<>>
    IN  IF klass.dataclass
        THEN Update(inherited, __annotations__(klass))
        ELSE inherited

\* klass.__mro__
RECURSIVE __mro__(_)
__mro__(klass) ==
    IF klass = object THEN <<object>>
    ELSE <<klass>>
         \o (IF klass.base = <<>> THEN <<object>> ELSE __mro__(klass.base[1]))

\* what a call gives: a value, or an exception that propagates
Ret(v) == [ok |-> TRUE, val |-> v, exc |-> "none"]
Raise(e) == [ok |-> FALSE, val |-> <<>>, exc |-> e]

(***************************************************************************)
(* Structure normalizer                                                    *)
(***************************************************************************)
ClassDef(n, m, bases, fields, methods) ==
    [name |-> n, module |-> m, bases |-> bases, fields |-> fields,
     methods |-> methods]

_get_fullname(entity) ==
    IF entity.has_module
    THEN IF entity.has_name
         THEN Ret(entity.module \o s_dot \o entity.name)
         ELSE Raise("AttributeError")
    ELSE IF entity.has_name
         THEN Ret(entity.name)
         ELSE Ret(entity.repr)

\* {k: _get_fullname(v) for k, v in items}
FullnameOfItems(items) ==
    LET r == [i \in 1..Len(items) |-> _get_fullname(items[i][2])]
    IN  IF \E i \in 1..Len(items) : ~r[i].ok
        THEN Raise("AttributeError")
        ELSE Ret([i \in 1..Len(items) |-> <<items[i][1], r[i].val>>])

_get_method_annotation(method) == FullnameOfItems(method.annotations)

_get_methods(entity) ==
    LET kept == SelectSeq(__dict__(entity),
                    LAMBDA e : ~(startswith(e.key, s_dunder)
                                 \/ ~e.isfunction))
        r == [i \in 1..Len(kept) |-> _get_method_annotation(kept[i])]
    IN  IF \E i \in 1..Len(kept) : ~r[i].ok
        THEN Raise("AttributeError")
        ELSE Ret([i \in 1..Len(kept) |-> <<kept[i].key, r[i].val>>])

_get_dataclass_structure(klass) ==
    LET items == __dataclass_fields__(klass)
        methods == _get_methods(klass)
    IN  IF \E i \in 1..Len(items) : ~items[i][2].has_name
        THEN Raise("AttributeError")
        ELSE IF ~methods.ok THEN methods
        ELSE Ret(ClassDef(s_empty, s_empty, <<>>,
                     [i \in 1..Len(items) |->
                         <<items[i][1], items[i][2].name>>],
                     methods.val))

_get_base_classes(klass) ==
    SelectSeq(__mro__(klass),
        LAMBDA c : c.name \notin {s_object, klass.name})

_get_annotations(klass) == FullnameOfItems(__annotations__(klass))

_get_classic_class_structure(klass) ==
    LET _methods == _get_methods(klass)
        keys == SelectSeq(__dict__(klass),
                    LAMBDA e : ~(startswith(e.key, s_dunder)
                                 \/ e.key \in Keys(_methods.val)))
        annotations == _get_annotations(klass)
    IN  IF ~_methods.ok THEN _methods
        ELSE IF keys # <<>> /\ ~annotations.ok THEN annotations
        ELSE Ret(ClassDef(s_empty, s_empty, <<>>,
                     [i \in 1..Len(keys) |->
                         <<keys[i].key,
                           Get(annotations.val, keys[i].key, s_empty)>>],
                     _methods.val))

_get_class_structure(klass) ==
    LET class_struct ==
            IF is_dataclass(klass) THEN _get_dataclass_structure(klass)
            ELSE IF klass.isclass THEN _get_classic_class_structure(klass)
            ELSE Raise("Exception")
        refs == _get_base_classes(klass)
        names == [i \in 1..Len(refs) |-> _get_fullname(refs[i])]
    IN  IF ~class_struct.ok THEN class_struct
        ELSE IF ~_get_fullname(klass).ok THEN _get_fullname(klass)
        ELSE IF \E i \in 1..Len(refs) : ~names[i].ok
             THEN Raise("AttributeError")
        ELSE Ret(ClassDef(_get_fullname(klass).val, klass.module,
                     [i \in 1..Len(refs) |-> names[i].val],
                     class_struct.val.fields, class_struct.val.methods))

(***************************************************************************)
(* UML formatter                                                           *)
(***************************************************************************)
s_comma == <<",", " ">>
s_newline == <<"\\", "l">>
s_bar == <<"|">>

\* the glyph, had it been chosen by the two-character prefix of _get_methods
visibility_dunder(k) == IF startswith(k, s_dunder) THEN "-" ELSE "+"

\* the conditional expression of lines 182 and 192
visibility(k) == IF startswith(k, s_under) THEN "-" ELSE "+"

_get_entity_class_uml(klass) ==
    LET base_classes == join(s_comma, klass.bases)
        class_name ==
            IF base_classes # s_empty
            THEN klass.name \o <<" ", "(">> \o base_classes \o <<")">>
            ELSE klass.name
        fields_struct == klass.fields
        fields ==
            join(s_newline,
                 [i \in 1..Len(fields_struct) |->
                     <<visibility(fields_struct[i][1]), " ">>
                         \o fields_struct[i][1] \o <<":", " ">>
                         \o fields_struct[i][2]])
            \o s_newline
        methods_struct == klass.methods
        methods_raw ==
            [i \in 1..Len(methods_struct) |->
                <<visibility(methods_struct[i][1]), " ">>
                    \o methods_struct[i][1] \o <<"(", ")">>]
        methods == join(s_newline, methods_raw) \o s_newline
    IN  <<"{">> \o class_name \o s_bar \o fields \o s_bar \o methods
            \o <<"}">>

(***************************************************************************)
(* Diagram builder                                                         *)
(***************************************************************************)
\* the sequences that enumerate the set S, each element once
Orderings(S) ==
    {o \in [1..Cardinality(S) -> S] :
        \A i, j \in 1..Cardinality(S) : o[i] = o[j] => i = j}

RECURSIVE Flatten(_)
Flatten(ss) == IF ss = <<>> THEN <<>> ELSE ss[1] \o Flatten(Tail(ss))

\* the list `edges` after the loop of lines 306-313
edges_list(classes_list_) ==
    Flatten([i \in 1..Len(classes_list_) |->
                [j \in 1..Len(classes_list_[i].bases) |->
                    <<classes_list_[i].bases[j], classes_list_[i].name>>]])

\* line 315 without set(): the list itself handed to g.edges
edge_statements_of_list(edges) == {edges}

\* g.edges(set(edges)): one edge statement per element of the set, in the
\* set's iteration order, which Python leaves unspecified
edge_statements(edges) == Orderings(Range(edges))

\* the graph create_diagram returns, given the emitted edge statements
create_diagram(classes_list_, emitted) ==
    [nodes |-> [i \in 1..Len(classes_list_) |->
                   <<classes_list_[i].name,
                     _get_entity_class_uml(classes_list_[i])>>],
     edges |-> emitted]

(***************************************************************************)
(* Inputs of the pure-function specifications                              *)
(***************************************************************************)
\* the sequences over S of length lo..hi
SeqsOf(S, lo, hi) == UNION {[1..n -> S] : n \in lo..hi}

\* those of them that repeat no element
DistinctSeqsOf(S, lo, hi) ==
    {q \in SeqsOf(S, lo, hi) :
        \A i, j \in 1..Len(q) : q[i] = q[j] => i = j}

LoaderIdle ==
    /\ sys_path = <<>>
    /\ sys_modules = <<>>
    /\ source = <<>>
    /\ pc = "idle"
    /\ pending = {}
    /\ classes_list = <<>>
    /\ result = <<>>
    /\ calls = <<>>

s_t == <<"t">>
s_a == <<"a">>
s_m1 == <<"m", "1">>
s_m2 == <<"m", "2">>
s_K == <<"K">>
s_P == <<"P">>
s_Q == <<"Q">>
s_D == <<"D">>
s_x == <<"x">>
s_w == <<"w">>
s__y == <<"_", "y">>
s___z == <<"_", "_", "z">>
s_run == <<"r", "u", "n">>
s__p == <<"_", "p">>
s___q == <<"_", "_", "q">>
s_return == <<"r", "e", "t", "u", "r", "n">>

StemChars == {"h", "p", "y", "."}
Stems == SeqsOf(StemChars, 1, MaxStem)
Dirs == {<<>>, <<s_t>>, <<s_t, s_a>>}

\* the path of the file <stem>.py in directory dir
PathOf(dir, stem) == join(sep, dir \o <<stem \o dot_py>>)

PathInputs ==
    {[dir |-> d, stem |-> st, module_path |-> PathOf(d, st)] :
        d \in Dirs, st \in Stems}

\* objects an annotation or an entity reference can be
Values ==
    {int, object, Class(s_m1, s_K, <<>>, <<>>, FALSE), StrObj(s_int),
     InstanceObj(s_m1, <<"<", "K", "(", ")", ">">>), ModuleObj(s_m1),
     FunctionObj(s_m1, s_run)}

(***************************************************************************)
(* SpecPure: _extract_module_name and _get_fullname on drawn inputs        *)
(***************************************************************************)
InitPure ==
    /\ LoaderIdle
    /\ ret = <<>>
    /\ \/ call = "path" /\ arg \in PathInputs
       \/ call = "value" /\ arg \in Values

ExtractModuleName ==
    /\ call = "path"
    /\ call' = "_extract_module_name"
    /\ ret' = _extract_module_name(arg.module_path)
    /\ UNCHANGED <<arg, loader_vars>>

GetFullname ==
    /\ call = "value"
    /\ call' = "_get_fullname"
    /\ ret' = _get_fullname(arg)
    /\ UNCHANGED <<arg, loader_vars>>

NextPure == ExtractModuleName \/ GetFullname

SpecPure == InitPure /\ [][NextPure]_vars

\* C10: for the path of <stem>.py in a directory, _extract_module_name
\* returns that directory and exactly <stem>.
C10_ModuleNameIsStem ==
    call = "_extract_module_name"
        => ret = <<join(sep, arg.dir), arg.stem>>

\* C7: _get_fullname never raises and gives module.name when the value has
\* both, the bare name when it has only a name, and str(value) otherwise.
C7_FullnameTotalThreeTier ==
    call = "_get_fullname"
        => /\ ret.ok
           /\ ret.val = IF arg.has_module /\ arg.has_name
                        THEN arg.module \o s_dot \o arg.name
                        ELSE IF arg.has_name THEN arg.name
                        ELSE arg.repr

(***************************************************************************)
(* SpecStruct: _get_class_structure on one class statement, once as        *)
(* written and once under @dataclass                                       *)
(***************************************************************************)
\* classes of another module that the class under analysis may derive from
P == Class(s_m2, s_P, <<>>, <<>>, FALSE)
Q == Class(s_m2, s_Q, <<P>>, <<>>, FALSE)
OtherK == Class(s_m2, s_K, <<>>, <<>>, FALSE)
OtherObject == Class(s_m2, s_object, <<>>, <<>>, FALSE)
DataParent ==
    Class(s_m2, s_D, <<>>, <<Field(s_w, TRUE, int, TRUE)>>, TRUE)

BaseChoices ==
    {<<>>, <<P>>, <<Q>>, <<OtherK>>, <<OtherObject>>, <<DataParent>>}

Members ==
    {Field(s_x, TRUE, int, TRUE),
     Field(s_x, TRUE, int, FALSE),
     Field(s_x, TRUE, StrObj(s_int), TRUE),
     Field(s_x, TRUE, InstanceObj(s_m2, <<"<", "P", "(", ")", ">">>), TRUE),
     Field(s__y, TRUE, P, TRUE),
     Field(s__y, FALSE, object, TRUE),
     Method(s_run, <<>>),
     Method(s_run, <<<<s_return, int>>>>)}

Bodies ==
    {b \in SeqsOf(Members, 0, MaxMembers) :
        \A i, j \in 1..Len(b) : b[i].name = b[j].name => i = j}

InitStruct ==
    /\ LoaderIdle
    /\ call = "classes"
    /\ ret = <<>>
    /\ \E base \in BaseChoices, body \in Bodies :
          arg = <<Class(s_m1, s_K, base, body, FALSE),
                  Class(s_m1, s_K, base, body, TRUE)>>

\* one iteration of the loop of lines 358-359
GetClassStructure ==
    /\ call = "classes"
    /\ Len(ret) < Len(arg)
    /\ ret' = Append(ret, _get_class_structure(arg[Len(ret) + 1]))
    /\ UNCHANGED <<call, arg, loader_vars>>

NextStruct == GetClassStructure

SpecStruct == InitStruct /\ [][NextStruct]_vars

\* the ancestors of klass other than klass itself and the root type
ProperAncestors(klass) ==
    SelectSeq(__mro__(klass), LAMBDA c : c # klass /\ c # object)

\* C4: bases are the full names of the ancestors in resolution order, only
\* the root type and the entity itself left out, and never hold the
\* entity's own name.
C4_BasesAreProperAncestors ==
    call = "classes" =>
        \A i \in 1..Len(ret) :
            ret[i].ok =>
                /\ ret[i].val.bases =
                       [j \in 1..Len(ProperAncestors(arg[i])) |->
                           ProperAncestors(arg[i])[j].module \o s_dot
                               \o ProperAncestors(arg[i])[j].name]
                /\ ret[i].val.name \notin Range(ret[i].val.bases)

\* every field of the class statement is annotated
AllFieldsAnnotated(klass) ==
    \A i \in 1..Len(klass.body) :
        klass.body[i].kind = "field" => klass.body[i].annotated

\* C6: a classic class and a dataclass that declare the same annotated
\* fields, methods and bases normalize to equal fields, methods and bases
\* and so to the same label.
C6_StyleTransparent ==
    (call = "classes" /\ Len(ret) = 2 /\ AllFieldsAnnotated(arg[1])
        /\ ret[1].ok /\ ret[2].ok)
        => /\ ret[1].val.fields = ret[2].val.fields
           /\ ret[1].val.methods = ret[2].val.methods
           /\ ret[1].val.bases = ret[2].val.bases
           /\ _get_entity_class_uml(ret[1].val)
                  = _get_entity_class_uml(ret[2].val)

(***************************************************************************)
(* SpecFormat: _get_entity_class_uml on a drawn ClassDef                   *)
(***************************************************************************)
s_mK == s_m1 \o s_dot \o s_K
s_mP == s_m2 \o s_dot \o s_P
s_mQ == s_m2 \o s_dot \o s_Q

FieldNames == {s_x, s__y, s___z}
MethodNames == {s_run, s__p, s___q}
TypeNames == {s_int, s_empty}

FieldDicts ==
    UNION {{[i \in 1..Len(ks) |-> <<ks[i], ts[i]>>] :
               ts \in [1..Len(ks) -> TypeNames]} :
           ks \in DistinctSeqsOf(FieldNames, 0, MaxMembers)}

MethodDicts ==
    {[i \in 1..Len(ks) |-> <<ks[i], <<>>>>] :
        ks \in DistinctSeqsOf(MethodNames, 0, MaxMembers)}

InitFormat ==
    /\ LoaderIdle
    /\ call = "classdef"
    /\ ret = <<>>
    /\ \E bases \in {<<>>, <<s_mP>>, <<s_mQ, s_mP>>},
          fields \in FieldDicts, methods \in MethodDicts :
          arg = ClassDef(s_mK, s_m1, bases, fields, methods)

GetEntityClassUml ==
    /\ call = "classdef"
    /\ call' = "_get_entity_class_uml"
    /\ ret' = _get_entity_class_uml(arg)
    /\ UNCHANGED <<arg, loader_vars>>

NextFormat == GetEntityClassUml

SpecFormat == InitFormat /\ [][NextFormat]_vars

\* the lines of the label's field and method compartments
FieldLines(label) == split(split(label, s_bar)[2], s_newline)
MethodLines(label) == split(split(label, s_bar)[3], s_newline)

\* the line of every field and of every method starts with "-" exactly
\* when its name starts with prefix, and with "+" otherwise
GlyphFollowsPrefix(prefix) ==
    call = "_get_entity_class_uml" =>
        /\ \A i \in 1..Len(arg.fields) :
              FieldLines(ret)[i][1] =
                  IF startswith(arg.fields[i][1], prefix) THEN "-" ELSE "+"
        /\ \A i \in 1..Len(arg.methods) :
              MethodLines(ret)[i][1] =
                  IF startswith(arg.methods[i][1], prefix) THEN "-" ELSE "+"

\* C8 as stated: the glyph is "-" exactly for the names that start with the
\* prefix "__" by which the loader and the normalizer exclude members.
C8_GlyphFollowsExclusionPrefix == GlyphFollowsPrefix(s_dunder)

\* C8 as amended: the glyph is "-" exactly for the names that start with a
\* single underscore, and "+" otherwise.
C8_GlyphFollowsUnderscore == GlyphFollowsPrefix(s_under)

\* a formatted structure with a field and a method whose names start with
\* one underscore but not two, both rendered with "-"
C8_Witness ==
    /\ call = "_get_entity_class_uml"
    /\ \E i \in 1..Len(arg.fields) :
          /\ arg.fields[i][1] = s__y
          /\ FieldLines(ret)[i][1] = "-"
    /\ \E i \in 1..Len(arg.methods) :
          /\ arg.methods[i][1] = s__p
          /\ MethodLines(ret)[i][1] = "-"
    /\ \E i \in 1..Len(arg.fields) : FieldLines(ret)[i][1] = "+"

(***************************************************************************)
(* SpecDiagram: create_diagram on a drawn list of ClassDef                 *)
(***************************************************************************)
s_A == <<"A">>
s_B == <<"B">>
s_X == <<"X">>

NodeNames == {s_A, s_B}
BaseNames == {s_A, s_X}

DiagramClassDefs ==
    {ClassDef(n, s_m1, bases, <<>>, <<>>) :
        n \in NodeNames, bases \in SeqsOf(BaseNames, 0, MaxBases)}

InitDiagram ==
    /\ LoaderIdle
    /\ call = "classdefs"
    /\ ret = <<>>
    /\ arg \in SeqsOf(DiagramClassDefs, 0, MaxClasses)

CreateDiagram ==
    /\ call = "classdefs"
    /\ call' = "create_diagram"
    /\ \E emitted \in edge_statements(edges_list(arg)) :
          ret' = create_diagram(arg, emitted)
    /\ UNCHANGED <<arg, loader_vars>>

NextDiagram == CreateDiagram

SpecDiagram == InitDiagram /\ [][NextDiagram]_vars

\* C5: the emitted edges are exactly the pairs (b, e.name) for e in the
\* list and b in e.bases, each once, whether or not b is a node.
C5_EdgesAreDeclaredPairsOnce ==
    call = "create_diagram" =>
        /\ Range(ret.edges) =
               UNION {{<<arg[i].bases[j], arg[i].name>> :
                          j \in 1..Len(arg[i].bases)} : i \in 1..Len(arg)}
        /\ \A i, j \in 1..Len(ret.edges) :
              ret.edges[i] = ret.edges[j] => i = j

\* a diagram of a list in which two structures declare the same pair and
\* the base of that pair is not a node: the pair is emitted
C5_Witness ==
    /\ call = "create_diagram"
    /\ \E i, j \in 1..Len(arg) :
          /\ i # j
          /\ arg[i].name = arg[j].name
          /\ arg[i].bases = <<s_X>>
          /\ arg[j].bases = <<s_X>>
          /\ <<s_X, arg[i].name>> \in Range(ret.edges)
    /\ \A i \in 1..Len(ret.nodes) : ret.nodes[i][1] # s_X

(***************************************************************************)
(* The file system under analysis and Python's import system               *)
(***************************************************************************)
\* statements of a module's source text
\*   class name(base): body          ClassStmt (base = <<>>: no base)
\*   from module import name         FromImport
\*   def name(): ...                 DefStmt
\*   raise exc / sys.exit()          RaiseStmt
Stmt(op, n, m, base, body, dc, exc) ==
    [op |-> op, name |-> n, module |-> m, base |-> base, body |-> body,
     dataclass |-> dc, exc |-> exc]

ClassStmt(n, base, body, dc) == Stmt("class", n, s_empty, base, body, dc, "none")
FromImport(m, n) == Stmt("from_import", n, m, s_empty, <<>>, FALSE, "none")
DefStmt(n) == Stmt("def", n, s_empty, s_empty, <<>>, FALSE, "none")
RaiseStmt(exc) == Stmt("raise", s_empty, s_empty, s_empty, <<>>, FALSE, exc)

s_lib == <<"l", "i", "b">>
s_b == <<"b">>
s_c == <<"c">>
s_d == <<"d">>
s_e == <<"e">>
s_f == <<"f">>
s_m == <<"m">>
s_s == <<"s">>
s_u == <<"u">>
s_v == <<"v">>
s_k == <<"k">>
s_g == <<"g">>
s_G == <<"G">>
s_hp == <<"h", "p">>
s_H == <<"H">>
s___Z == <<"_", "_", "Z">>
s_name_key == <<"_", "_", "n", "a", "m", "e", "_", "_">>
s_txt == <<".", "t", "x", "t">>
s_missing == <<"n", "o">>

File(dir, filename, text) == [path |-> join(sep, dir \o <<filename>>), text |-> text]

\* the tree:  t/s/b.py   class B: x: int = 0
\*            t/s/d.py   from b import B; class D(B): def run(self): ...
\*            t/a/m.py   class P; def f(); class __Z
\*            t/c/m.py   class Q
\*            t/e.py     raise RuntimeError
\*            t/hp.py    class H
\*            t/__pycache__/b.py, t/m.txt   (not source files)
\*            u/x.py     sys.exit()
\*            u/g.py     class G
\*            v/k.py     class K: x: P() = P()   (annotated by an instance)
Files ==
    {File(<<s_t, s_s>>, s_b \o dot_py,
          <<ClassStmt(s_B, s_empty, <<Field(s_x, TRUE, int, TRUE)>>, FALSE)>>),
     File(<<s_t, s_s>>, s_d \o dot_py,
          <<FromImport(s_b, s_B),
            ClassStmt(s_D, s_B, <<Method(s_run, <<>>)>>, FALSE)>>),
     File(<<s_t, s_a>>, s_m \o dot_py,
          <<ClassStmt(s_P, s_empty, <<>>, FALSE), DefStmt(s_f),
            ClassStmt(s___Z, s_empty, <<>>, FALSE)>>),
     File(<<s_t, s_c>>, s_m \o dot_py,
          <<ClassStmt(s_Q, s_empty, <<>>, FALSE)>>),
     File(<<s_t>>, s_e \o dot_py, <<RaiseStmt("RuntimeError")>>),
     File(<<s_u>>, s_x \o dot_py, <<RaiseStmt("SystemExit")>>),
     File(<<s_u>>, s_g \o dot_py,
          <<ClassStmt(s_G, s_empty, <<>>, FALSE)>>),
     File(<<s_v>>, s_k \o dot_py,
          <<ClassStmt(s_K, s_empty,
                <<Field(s_x, TRUE,
                        InstanceObj(s_k, <<"<", "P", "(", ")", ">">>),
                        TRUE)>>, FALSE)>>),
     File(<<s_t>>, s_hp \o dot_py,
          <<ClassStmt(s_H, s_empty, <<>>, FALSE)>>),
     File(<<s_t, s_pycache>>, s_b \o dot_py, <<>>),
     File(<<s_t>>, s_m \o s_txt, <<>>)}

FilePaths == {f.path : f \in Files}
FileAt(path) == CHOOSE f \in Files : f.path = path

\* os.path.isdir, os.path.exists
isdir(path) == \E f \in FilePaths : startswith(f, path \o sep)
exists(path) == path \in FilePaths \/ isdir(path)

\* the exceptions that `except Exception` catches; SystemExit and
\* KeyboardInterrupt derive from BaseException only
IsException(exc) ==
    exc \in {"RuntimeError", "ModuleNotFoundError", "ImportError",
             "ValueError", "NameError", "AttributeError", "Exception"}

\* del d[k]
DelItem(items, k) == SelectSeq(items, LAMBDA kv : kv[1] # k)

\* a module object of sys.modules: its namespace, in binding order
Module(file, ns) == [file |-> file, ns |-> ns]

\* the first directory of the search path that holds <name>.py
find_spec(name, path) ==
    LET in_dir(d) == IF d = s_empty THEN name \o dot_py
                     ELSE d \o sep \o name \o dot_py
        hits == {i \in 1..Len(path) : in_dir(path[i]) \in FilePaths}
    IN  IF hits = {} THEN s_empty
        ELSE in_dir(path[CHOOSE i \in hits : \A j \in hits : i <= j])

Outcome(ok, exc, modules) == [ok |-> ok, exc |-> exc, modules |-> modules]

\* module `name` with `n` bound to object `o`
Bind(modules, name, n, o) ==
    LET mod == Get(modules, name, <<>>)
    IN  SetItem(modules, name, Module(mod.file, SetItem(mod.ns, n, o)))

RECURSIVE import_module(_, _, _)
RECURSIVE exec_module(_, _, _, _)

\* `from module import name` in module `importer`, given what importing
\* `module` gave
bind_imported(importer, stmt, r) ==
    IF ~r.ok THEN r
    ELSE IF stmt.name \notin Keys(Get(r.modules, stmt.module, <<>>).ns)
    THEN Outcome(FALSE, "ImportError", r.modules)
    ELSE Outcome(TRUE, "none",
             Bind(r.modules, importer, stmt.name,
                  Get(Get(r.modules, stmt.module, <<>>).ns, stmt.name,
                      <<>>)))

\* `class name(base): body` in a module whose namespace is ns
bind_class(importer, stmt, ns, modules) ==
    IF stmt.base # s_empty /\ stmt.base \notin Keys(ns)
    THEN Outcome(FALSE, "NameError", modules)
    ELSE Outcome(TRUE, "none",
             Bind(modules, importer, stmt.name,
                  Class(importer, stmt.name,
                        IF stmt.base = s_empty THEN <<>>
                        ELSE <<Get(ns, stmt.base, <<>>)>>,
                        stmt.body, stmt.dataclass)))

\* one statement of module `name`, executed with sys.path = path
exec_stmt(name, stmt, path, modules) ==
    CASE stmt.op = "class" ->
             bind_class(name, stmt, Get(modules, name, <<>>).ns, modules)
      [] stmt.op = "def" ->
             Outcome(TRUE, "none",
                 Bind(modules, name, stmt.name, FunctionObj(name, stmt.name)))
      [] stmt.op = "from_import" ->
             bind_imported(name, stmt,
                 import_module(stmt.module, path, modules))
      [] OTHER -> Outcome(FALSE, stmt.exc, modules)

\* the rest of a module's text, executed after what gave `sofar`
exec_rest(name, text, path, sofar) ==
    IF ~sofar.ok THEN sofar
    ELSE exec_module(name, text, path, sofar.modules)

exec_module(name, text, path, modules) ==
    IF text = <<>> THEN Outcome(TRUE, "none", modules)
    ELSE exec_rest(name, Tail(text), path,
             exec_stmt(name, text[1], path, modules))

\* a module whose execution raises is taken out of sys.modules again
finish_import(name, r) ==
    IF r.ok THEN r ELSE Outcome(FALSE, r.exc, DelItem(r.modules, name))

\* the module found in `file` enters sys.modules and is executed
load_file(name, file, path, modules) ==
    IF file = s_empty THEN Outcome(FALSE, "ModuleNotFoundError", modules)
    ELSE finish_import(name,
             exec_module(name, FileAt(file).text, path,
                 SetItem(modules, name,
                     Module(file, <<<<s_name_key, StrObj(name)>>>>))))

\* importlib.import_module(name) with sys.path = path, sys.modules = modules:
\* a module already in sys.modules is returned as it is, otherwise the
\* first <name>.py of the search path is executed under that name
import_module(name, path, modules) ==
    IF name = s_empty THEN Outcome(FALSE, "ValueError", modules)
    ELSE IF name \in Keys(modules) THEN Outcome(TRUE, "none", modules)
    ELSE load_file(name, find_spec(name, path), path, modules)

\* code points, in order, of the characters names are written with
CodePoints ==
    <<".", "/", "A", "B", "C", "D", "E", "F", "G", "H", "I", "J", "K", "L",
      "M", "N", "O", "P", "Q", "R", "S", "T", "U", "V", "W", "X", "Y", "Z",
      "_", "a", "b", "c", "d", "e", "f", "g", "h", "i", "j", "k", "l", "m",
      "n", "o", "p", "q", "r", "s", "t", "u", "v", "w", "x", "y", "z">>

ord(ch) == CHOOSE i \in 1..Len(CodePoints) : CodePoints[i] = ch

\* a < b on two str
str_lt(a, b) ==
    \E i \in 1..Len(b) :
        /\ \A j \in 1..(i - 1) : j <= Len(a) /\ a[j] = b[j]
        /\ i > Len(a) \/ ord(a[i]) < ord(b[i])

\* dir(module): the names of the namespace, sorted
dir(mod) == SortSeq([i \in 1..Len(mod.ns) |-> mod.ns[i][1]], str_lt)

(***************************************************************************)
(* Source locator, entity loader, orchestrator                             *)
(***************************************************************************)
\* glob.glob(target + '/**/*', recursive=True) lists what lies under
\* target; the result keeps the .py paths that hold no excluded pattern
_search_modules(target) ==
    {f \in FilePaths :
        /\ startswith(f, target \o sep)
        /\ ~contains(f, s_pycache)
        /\ endswith(f, dot_py)}

\* what one call of _get_classes_from_module does and leaves behind
Loaded(exit, raised, path, modules, returned) ==
    [exit |-> exit, raised |-> raised, sys_path |-> path,
     sys_modules |-> modules, returned |-> returned]

\* the public classes of a module, in the order of dir(module)
public_classes(ns, names) ==
    [i \in 1..Len(names) |-> Get(ns, names[i], <<>>)]

module_classes(mod) ==
    public_classes(mod.ns,
        SelectSeq(dir(mod),
            LAMBDA o : /\ Get(mod.ns, o, <<>>).isclass
                       /\ ~startswith(o, s_dunder)))

\* lines 280-294, given what importlib.import_module (line 279) gave.
\* interrupt: where the user's interrupt arrives, "none" when it does not:
\* "import" inside importlib.import_module, "listing" inside lines 281-285
after_import(module_name, interrupt, original_path, inserted, modules, r) ==
    CASE interrupt = "import" ->
             Loaded("exit", "KeyboardInterrupt", inserted, modules, <<>>)
      [] interrupt # "import" /\ ~r.ok /\ IsException(r.exc) ->
             Loaded("return", r.exc, inserted, r.modules, <<>>)
      [] interrupt # "import" /\ ~r.ok /\ ~IsException(r.exc) ->
             Loaded("escaped", r.exc, inserted, r.modules, <<>>)
      [] interrupt = "listing" /\ r.ok ->
             Loaded("exit", "KeyboardInterrupt", original_path, r.modules,
                    <<>>)
      [] OTHER ->
             Loaded("return", "none", original_path, r.modules,
                    module_classes(Get(r.modules, module_name, <<>>)))

\* lines 276-279, given what _extract_module_name (line 275) gave
try_import(extracted, interrupt, path, modules) ==
    after_import(extracted[2], interrupt, path, <<extracted[1]>> \o path,
        modules,
        import_module(extracted[2], <<extracted[1]>> \o path, modules))

_get_classes_from_module(module_path, interrupt, path, modules) ==
    try_import(_extract_module_name(module_path), interrupt, path, modules)

Sources ==
    {s_t, s_u, s_v, join(sep, <<s_t, s_s>>), join(sep, <<s_t, s_a>>),
     join(sep, <<s_t, s_s, s_d \o dot_py>>), s_missing}

Init ==
    /\ sys_path = <<s_lib>>
    /\ sys_modules = <<>>
    /\ source \in Sources
    /\ pc = "start"
    /\ pending = {}
    /\ classes_list = <<>>
    /\ result = <<>>
    /\ calls = <<>>
    /\ call = "idle"
    /\ arg = <<>>
    /\ ret = <<>>

\* lines 347-348: the path does not exist
StartMissing ==
    /\ pc = "start"
    /\ ~exists(source)
    /\ pc' = "exit"
    /\ UNCHANGED <<sys_path, sys_modules, source, pending, classes_list,
                   result, calls, harness_vars>>

\* lines 349-352: a directory
StartDirectory ==
    /\ pc = "start"
    /\ exists(source)
    /\ isdir(source)
    /\ sys_path' = <<source>> \o sys_path
    /\ pending' = _search_modules(source)
    /\ pc' = "loop"
    /\ UNCHANGED <<sys_modules, source, classes_list, result, calls,
                   harness_vars>>

\* lines 354-355: a single file
StartFile ==
    /\ pc = "start"
    /\ exists(source)
    /\ ~isdir(source)
    /\ pending' = {source}
    /\ pc' = "loop"
    /\ UNCHANGED <<sys_path, sys_modules, source, classes_list, result,
                   calls, harness_vars>>

\* lines 353 and 355: classes_list.extend(_get_classes_from_module(f)) for
\* the next file, in whatever order glob lists the files
Load ==
    /\ pc = "loop"
    /\ \E f \in pending, interrupt \in {"none", "import", "listing"} :
          \E r \in {_get_classes_from_module(f, interrupt, sys_path,
                                               sys_modules)} :
              /\ sys_path' = r.sys_path
              /\ sys_modules' = r.sys_modules
              /\ calls' = Append(calls,
                     [file |-> f, before |-> sys_path, after |-> r.sys_path,
                      exit |-> r.exit, raised |-> r.raised,
                      returned |-> r.returned])
              /\ IF r.exit = "return"
                 THEN /\ classes_list' = classes_list \o r.returned
                      /\ pending' = pending \ {f}
                      /\ pc' = "loop"
                 ELSE /\ pc' = r.exit
                      /\ UNCHANGED <<classes_list, pending>>
    /\ UNCHANGED <<source, result, harness_vars>>

\* lines 357-361
Normalize ==
    /\ pc = "loop"
    /\ pending = {}
    /\ LET rs == [i \in 1..Len(classes_list) |->
                     _get_class_structure(classes_list[i])]
       IN  IF \A i \in 1..Len(classes_list) : rs[i].ok
           THEN /\ result' = [i \in 1..Len(classes_list) |-> rs[i].val]
                /\ pc' = "done"
           ELSE /\ pc' = "escaped"
                /\ UNCHANGED result
    /\ UNCHANGED <<sys_path, sys_modules, source, pending, classes_list,
                   calls, harness_vars>>

Next == StartMissing \/ StartDirectory \/ StartFile \/ Load \/ Normalize

Spec == Init /\ [][Next]_vars

\* C1: every call of _get_classes_from_module that returns, with or without
\* a caught load error, or that ends in the fatal exit of an interrupt,
\* leaves sys.path as it found it, and a finished load_classes_definition
\* leaves sys.path with no directory that a load inserted (a directory
\* input itself, inserted at line 350, is not counted).
C1_SearchPathRestored ==
    /\ \A i \in 1..Len(calls) :
          (calls[i].exit = "return" \/ calls[i].raised = "KeyboardInterrupt")
              => calls[i].after = calls[i].before
    /\ pc = "done" =>
          sys_path = IF isdir(source) THEN <<source, s_lib>> ELSE <<s_lib>>

\* C2: for a directory input, a load that fails with anything but the
\* user's interrupt does not let the failure escape: the call returns, with
\* no entity, and the run goes on.
C2_LoadFailureContained ==
    isdir(source) =>
        \A i \in 1..Len(calls) :
            calls[i].raised \notin {"none", "KeyboardInterrupt"}
                => calls[i].exit = "return" /\ calls[i].returned = <<>>

\* C3: the returned list holds no two structures with the same name, and
\* create_diagram emits no two nodes with the same name.
C3_OneStructurePerEntity ==
    pc = "done" =>
        /\ \A i, j \in 1..Len(result) :
              result[i].name = result[j].name => i = j
        /\ \A emitted \in edge_statements(edges_list(result)) :
              LET nodes == create_diagram(result, emitted).nodes
              IN  \A i, j \in 1..Len(nodes) :
                      nodes[i][1] = nodes[j][1] => i = j

\* the public classes the text of a file binds
OwnClassNames(path) ==
    {st.name : st \in {x \in Range(FileAt(path).text) :
                          /\ x.op \in {"class", "from_import"}
                          /\ ~startswith(x.name, s_dunder)}}

\* C9: a load that succeeds returns the classes of the file it was given,
\* whatever was loaded before.
C9_LoadReturnsOwnClasses ==
    \A i \in 1..Len(calls) :
        (calls[i].exit = "return" /\ calls[i].raised = "none")
            => {c.name : c \in Range(calls[i].returned)}
                   = OwnClassNames(calls[i].file)

====
